---- MODULE Spec2Model ----
\* A model of monkycord's persistence core: the JSON config store of
\* src/config.py (JsonConfigDB, JsonConfig, SubConfig and the two mixins) and
\* the part of src/wrapper.py that mirrors job/schedule events into it and
\* resumes them on the first ready signal.
\*
\* Python dicts are objects with identity: they live in `heap`, and a value
\* stored under a key is either a scalar (an integer >= 0) or a reference to
\* another dict (the negated address).  A file holds the serialisation of a
\* dict: a set of <<path, value>> pairs, which shares nothing with the heap.
EXTENDS Integers, Sequences, FiniteSets, TLC

\* ---------------------------------------------------------------- bounds
NGuilds == 2
NSubs == 2
MaxClock == 1
MaxOps == 4
NReady == 2
MaxEvents == 3
MaxViewOps == 3

\* ------------------------------------------------------------ value model
Keys == {"jobs", "cron"}
Vals == {1, 2}

Guilds == 1..NGuilds
MonkyDoc == 0
Docs == {MonkyDoc} \cup Guilds
SubIds == 1..NSubs
Handlers == 1..NReady
Ids == {1, 2}

\* the one element of a singleton: {F(x) : x \in {e}} names e's value x
Only(S) == CHOOSE r \in S : TRUE

Max(a, b) == IF a >= b THEN a ELSE b
\* (mutant: lambda val: header.id)
MaxWith_last(n) == [v \in 0..9 |-> n]
MaxWith(n) == [v \in 0..9 |-> Max(v, n)]

\* header.as_dict() of the job or schedule `id` of guild g, and its parts
Hdr(id, g) == id * 10 + g
IdOf(v) == v \div 10
GuildOf(v) == v % 10
IdKey(id) == ToString(id)

Ref(a) == 0 - a
IsRef(v) == v < 0
AddrOf(v) == 0 - v

\* A config is named by an integer: a JsonConfig by its id (>= 0), a
\* SubConfig by the negated number of the slot that holds it.
SubCfg(s) == 0 - s
IsSub(c) == c < 0
SubOf(c) == 0 - c

EmptyDict == [k \in {} |-> 0]
Put(d, k, v) == [x \in (DOMAIN d) \cup {k} |-> IF x = k THEN v ELSE d[x]]
Del(d, k) == [x \in (DOMAIN d) \ {k} |-> d[x]]

NewAddr(h) == CHOOSE a \in 1..(Cardinality(DOMAIN h) + 1) : a \notin DOMAIN h

\* ------------------------------------------------------------ file model
Obj == 0 - 1
Trunc == 0 - 2
NoFile == {}
Truncated == {<< <<>>, Trunc >>}

\* json.dump: the deep content of the dict at address a.
RECURSIVE Serialize(_, _)
Serialize(h, a) ==
    {<< <<>>, Obj >>} \cup
    UNION { IF IsRef(h[a][k])
            THEN {<< <<k>> \o e[1], e[2] >> : e \in Serialize(h, AddrOf(h[a][k]))}
            ELSE {<< <<k>>, h[a][k] >>}
          : k \in DOMAIN h[a] }

\* json.load: builds fresh dicts for the object at path p of a file content.
ChildKeys(flat, p) ==
    {e[1][Len(p) + 1] : e \in {x \in flat : Len(x[1]) = Len(p) + 1
                                          /\ SubSeq(x[1], 1, Len(p)) = p}}
ValueAt(flat, p) == (CHOOSE e \in flat : e[1] = p)[2]

RECURSIVE Parse(_, _, _)
RECURSIVE ParseKids(_, _, _, _, _)
ParseKids(h, flat, p, kids, acc) ==
    IF kids = {} THEN [heap |-> h, dict |-> acc]
    ELSE LET k == CHOOSE x \in kids : TRUE
             v == ValueAt(flat, p \o <<k>>)
         IN  IF v = Obj
             THEN LET r == Parse(h, flat, p \o <<k>>)
                  IN  ParseKids(r.heap, flat, p, kids \ {k}, Put(acc, k, Ref(r.addr)))
             ELSE ParseKids(h, flat, p, kids \ {k}, Put(acc, k, v))
Parse(h, flat, p) ==
    LET r == ParseKids(h, flat, p, ChildKeys(flat, p), EmptyDict)
        a == NewAddr(r.heap)
    IN  [heap |-> (a :> r.dict) @@ r.heap, addr |-> a]

\* --------------------------------------------------- reference counting
\* Addresses carry no meaning: after each operation the dicts still referred
\* to are renumbered in the order a traversal from the roots meets them, and
\* the others are freed.
KeyOrder == <<"jobs", "cron">>
InSeq(q, x) == \E i \in 1..Len(q) : q[i] = x

RECURSIVE AppendNew(_, _)
AppendNew(q, xs) ==
    IF xs = <<>> THEN q
    ELSE AppendNew(IF Head(xs) = 0 \/ InSeq(q, Head(xs)) THEN q ELSE Append(q, Head(xs)),
                   Tail(xs))

Children(d) ==
    LET ks == SelectSeq(KeyOrder, LAMBDA k : k \in DOMAIN d /\ IsRef(d[k]))
    IN  [i \in 1..Len(ks) |-> AddrOf(d[ks[i]])]

RECURSIVE Traverse(_, _, _)
Traverse(h, q, i) ==
    IF i > Len(q) THEN q ELSE Traverse(h, AppendNew(q, Children(h[q[i]])), i + 1)

Index(q, x) == IF x = 0 THEN 0 ELSE CHOOSE i \in 1..Len(q) : q[i] = x

\* ------------------------------------------------------------------ state
VARIABLES
    heap,       \* address -> dict (key -> scalar or reference)
    opts,       \* JsonConfig.opts of each document (0: not constructed)
    tmpl,       \* JsonConfig.template of each document (0: None)
    check,      \* JsonConfig.check_date
    sub,        \* the SubConfig objects held by callers: parent, name, opts
    file,       \* content of <id>.json
    mtime,      \* st_mtime of <id>.json
    last,       \* JsonConfig.last_readwrite_date
    now,        \* the clock read by datetime.now()
    exc,        \* exception raised by the last operation ("none" if it returned)
    ret,        \* the dict returned by the last get_and_clear (0: none held)
    wrote,      \* documents whose file the last operation wrote
    lastOp,     \* name of the last operation
    extMod,     \* documents edited outside the process since their last load/write
    nops,       \* number of operations performed so far
    crashed,    \* the process died inside a write
    db,         \* job_db.db: the ids of its documents, in insertion order
    queue,      \* jobs the JobQueue holds, as headers
    sched,      \* schedules the JobCron holds, as headers
    mirror,     \* headers submitted/created and not since stopped/cancelled/deleted
    jobs_resumed,
    task,       \* the on_ready coroutines: where each stands and its locals
    passes,     \* number of resumption passes started
    pass0,      \* the resumption while no event intervenes: what the files held
                \* when it began, and the headers resumed since
    types,      \* gs_db.types: the registered state classes, by typekey
    statedb,    \* gs_db.statedb: typekey -> (guild id -> instance)
    ninst,      \* state instances constructed so far; the n-th one is n
    gsret       \* what the last call on gs_db returned (0: nothing)

memVars == <<heap, opts, tmpl, check, sub, file, mtime, last, now, exc, ret, wrote>>
gsVars == <<types, statedb, ninst, gsret>>
coreVars ==
    <<db, queue, sched, mirror, jobs_resumed, task, passes, pass0, types, statedb, ninst, gsret>>

NoSub == [parent |-> 0, name |-> "", opts |-> 0]

\* The memory and the disk as one record, so that a handler is the
\* composition of the calls it makes.
Mem ==
    [heap |-> heap, opts |-> opts, tmpl |-> tmpl, check |-> check, sub |-> sub,
     file |-> file, mtime |-> mtime, last |-> last, now |-> now,
     exc |-> "none", ret |-> ret, wrote |-> {}]

SeqOf(f, lo, hi) == [i \in 1..(hi - lo + 1) |-> f[lo + i - 1]]
Roots(m) ==
    SeqOf(m.opts, 0, NGuilds) \o SeqOf(m.tmpl, 0, NGuilds)
      \o [s \in 1..NSubs |-> m.sub[s].opts] \o <<m.ret>>

Renumber(m, q) ==
    LET R(v) == IF IsRef(v) THEN Ref(Index(q, AddrOf(v))) ELSE v
    IN  [m EXCEPT
           !.heap = [n \in 1..Len(q) |-> [k \in DOMAIN m.heap[q[n]] |-> R(m.heap[q[n]][k])]],
           !.opts = [d \in Docs |-> Index(q, m.opts[d])],
           !.tmpl = [d \in Docs |-> Index(q, m.tmpl[d])],
           !.sub = [s \in SubIds |-> [m.sub[s] EXCEPT !.opts = Index(q, @)]],
           !.ret = Index(q, m.ret)]

Collect(m) ==
    Only({Renumber(m, q) : q \in {Traverse(m.heap, AppendNew(<<>>, Roots(m)), 1)}})

SetMem(m0) ==
    \E m \in {Collect(m0)} :
        /\ heap' = m.heap /\ opts' = m.opts /\ tmpl' = m.tmpl /\ check' = m.check
        /\ sub' = m.sub /\ file' = m.file /\ mtime' = m.mtime /\ last' = m.last
        /\ now' = m.now /\ exc' = m.exc /\ ret' = m.ret /\ wrote' = m.wrote

Raise(m, e) == [m EXCEPT !.exc = e]
OptsAddr(m, c) == IF IsSub(c) THEN m.sub[SubOf(c)].opts ELSE m.opts[c]

\* ------------------------------------------------------------ JsonConfig
\* JsonConfig.write (config.py 219-232), in its three parts: the check of
\* the modification date, open(path, 'w'), which truncates the file, and
\* json.dump followed by the update of last_readwrite_date.
\* (mutant: the comparison also refuses a file as old as the last write)
JsonConfig_write_refused_ge(m, d) ==
    m.file[d] # NoFile /\ m.check[d] /\ m.mtime[d] >= m.last[d]

JsonConfig_write_refused(m, d) ==
    m.file[d] # NoFile /\ m.check[d] /\ m.mtime[d] > m.last[d]

JsonConfig_write_open(m, d) ==
    [m EXCEPT !.file[d] = Truncated, !.mtime[d] = m.now]

JsonConfig_write_dump(m, d) ==
    [m EXCEPT !.file[d] = Serialize(m.heap, m.opts[d]),
              !.mtime[d] = m.now,
              !.last[d] = m.now,
              !.wrote = @ \cup {d}]

JsonConfig_write(m, d) ==
    IF m.exc # "none" THEN m
    ELSE IF JsonConfig_write_refused(m, d) THEN Raise(m, "ConfigException")
    ELSE JsonConfig_write_dump(JsonConfig_write_open(m, d), d)

\* (mutant: a SubConfig's write does not reach its parent)
write_own(m, c) ==
    IF IsSub(c) THEN m ELSE JsonConfig_write(m, c)

\* SubConfig.write (config.py 151-152): the write bubbles to the root.
RECURSIVE write(_, _)
write(m, c) ==
    IF IsSub(c) THEN write(m, m.sub[SubOf(c)].parent) ELSE JsonConfig_write(m, c)

\* JsonConfig.clear (config.py 216-217)
JsonConfig_clear(m, d) ==
    LET a == NewAddr(m.heap)
    IN  [m EXCEPT !.heap = (a :> EmptyDict) @@ m.heap, !.opts[d] = a]

\* (mutant: the new dict is stored in the parent but self.opts is not re-bound)
SubConfig_clear_stale(m, c) ==
    LET s == SubOf(c)
        pa == OptsAddr(m, m.sub[s].parent)
        a == NewAddr(m.heap)
    IN  [m EXCEPT !.heap = (a :> EmptyDict) @@ [m.heap EXCEPT ![pa] = Put(@, m.sub[s].name, Ref(a))]]

\* SubConfig.clear (config.py 147-149)
SubConfig_clear(m, c) ==
    LET s == SubOf(c)
        pa == OptsAddr(m, m.sub[s].parent)
        a == NewAddr(m.heap)
    IN  [m EXCEPT !.heap = (a :> EmptyDict) @@ [m.heap EXCEPT ![pa] = Put(@, m.sub[s].name, Ref(a))],
                  !.sub[s].opts = a]

\* (mutant: clear ends with write(), as the other mutating methods do)
clear_written(m, c) ==
    IF m.exc # "none" THEN m
    ELSE write(IF IsSub(c) THEN SubConfig_clear(m, c) ELSE JsonConfig_clear(m, c), c)

clear(m, c) ==
    IF m.exc # "none" THEN m
    ELSE IF IsSub(c) THEN SubConfig_clear(m, c) ELSE JsonConfig_clear(m, c)

\* ----------------------------------------------------------- ConfigMixin
\* (mutant: a refused write puts the old opts back)
ConfigMixin_set_undone(m, c, key, value) ==
    IF m.exc # "none" THEN m
    ELSE LET r == write([m EXCEPT !.heap[OptsAddr(m, c)] = Put(@, key, value)], c)
         IN  IF r.exc = "none" THEN r ELSE Raise(m, r.exc)

\* ConfigMixin.set (config.py 99-101)
ConfigMixin_set(m, c, key, value) ==
    IF m.exc # "none" THEN m
    ELSE write([m EXCEPT !.heap[OptsAddr(m, c)] = Put(@, key, value)], c)

\* ConfigMixin.get_and_set (config.py 106-108); f is the callable, given as
\* a function on the scalars.
ConfigMixin_get_and_set(m, c, key, f) ==
    IF m.exc # "none" THEN m
    ELSE IF key \notin DOMAIN m.heap[OptsAddr(m, c)] THEN Raise(m, "KeyError")
    ELSE write([m EXCEPT !.heap[OptsAddr(m, c)][key] = f[@]], c)

\* (mutant: a missing key is always tolerated)
ConfigMixin_delete_quiet(m, c, key, ignore_keyerror) ==
    IF m.exc # "none" THEN m
    ELSE IF key \notin DOMAIN m.heap[OptsAddr(m, c)] THEN m
    ELSE write([m EXCEPT !.heap[OptsAddr(m, c)] = Del(@, key)], c)

\* ConfigMixin.delete (config.py 110-115)
ConfigMixin_delete(m, c, key, ignore_keyerror) ==
    IF m.exc # "none" THEN m
    ELSE IF ignore_keyerror /\ key \notin DOMAIN m.heap[OptsAddr(m, c)] THEN m
    ELSE IF key \notin DOMAIN m.heap[OptsAddr(m, c)] THEN Raise(m, "KeyError")
    ELSE write([m EXCEPT !.heap[OptsAddr(m, c)] = Del(@, key)], c)

\* (mutant: the cleared opts are not written)
ConfigMixin_get_and_clear_unsaved(m, c) ==
    IF m.exc # "none" THEN m
    ELSE LET a == NewAddr(m.heap)
             m1 == [m EXCEPT !.heap = (a :> m.heap[OptsAddr(m, c)]) @@ m.heap,
                             !.ret = a]
         IN  clear(m1, c)

\* (mutant: the copy is taken after the clear)
ConfigMixin_get_and_clear_late(m, c) ==
    IF m.exc # "none" THEN m
    ELSE LET m1 == clear(m, c)
             a == NewAddr(m1.heap)
             m2 == write([m1 EXCEPT !.heap = (a :> m1.heap[OptsAddr(m1, c)]) @@ m1.heap,
                                    !.ret = a], c)
         IN  IF m2.exc = "none" THEN m2 ELSE [m2 EXCEPT !.ret = m.ret]

\* ConfigMixin.get_and_clear (config.py 118-123): dict(self.opts) is a new
\* dict with the same values; it is returned only if the write succeeds.
ConfigMixin_get_and_clear(m, c) ==
    IF m.exc # "none" THEN m
    ELSE LET a == NewAddr(m.heap)
             m1 == [m EXCEPT !.heap = (a :> m.heap[OptsAddr(m, c)]) @@ m.heap,
                             !.ret = a]
             m2 == write(clear(m1, c), c)
         IN  IF m2.exc = "none" THEN m2 ELSE [m2 EXCEPT !.ret = m.ret]

\* SubconfigMixin.sub (config.py 131-132), the new SubConfig kept in slot s.
SubconfigMixin_sub(m, c, key, s) ==
    IF m.exc # "none" THEN m
    ELSE IF key \notin DOMAIN m.heap[OptsAddr(m, c)] THEN Raise(m, "KeyError")
    ELSE [m EXCEPT !.sub[s] = [parent |-> c, name |-> key,
                               opts |-> AddrOf(m.heap[OptsAddr(m, c)][key])]]

\* (mutant: load does not update last_readwrite_date)
JsonConfig_load_undated(m, d) ==
    IF m.exc # "none" THEN m
    ELSE IF m.file[d] = NoFile THEN Raise(m, "FileNotFoundError")
    ELSE IF m.file[d] = Truncated THEN Raise(m, "JSONDecodeError")
    ELSE LET r == Parse(m.heap, m.file[d], <<>>)
             m1 == [m EXCEPT !.heap = r.heap, !.opts[d] = r.addr]
         IN  IF m.tmpl[d] = 0 THEN m1
             ELSE LET t == m1.heap[m.tmpl[d]]
                      missing == (DOMAIN t) \ DOMAIN r.heap[r.addr]
                      filled == [k \in (DOMAIN t) \cup DOMAIN r.heap[r.addr] |->
                                    IF k \in missing THEN t[k] ELSE r.heap[r.addr][k]]
                      m2 == [m1 EXCEPT !.heap[r.addr] = filled]
                  IN  IF missing # {} THEN JsonConfig_write(m2, d) ELSE m2

\* (mutant: the template's entries replace the file's, as opts.update would)
JsonConfig_load_update(m, d) ==
    IF m.exc # "none" THEN m
    ELSE IF m.file[d] = NoFile THEN Raise(m, "FileNotFoundError")
    ELSE IF m.file[d] = Truncated THEN Raise(m, "JSONDecodeError")
    ELSE LET r == Parse(m.heap, m.file[d], <<>>)
             m1 == [m EXCEPT !.heap = r.heap, !.opts[d] = r.addr, !.last[d] = m.now]
         IN  IF m.tmpl[d] = 0 THEN m1
             ELSE LET t == m1.heap[m.tmpl[d]]
                      missing == (DOMAIN t) \ DOMAIN r.heap[r.addr]
                      filled == [k \in (DOMAIN t) \cup DOMAIN r.heap[r.addr] |->
                                    IF k \in DOMAIN t THEN t[k] ELSE r.heap[r.addr][k]]
                      m2 == [m1 EXCEPT !.heap[r.addr] = filled]
                  IN  IF missing # {} THEN JsonConfig_write(m2, d) ELSE m2

\* JsonConfig.load (config.py 186-208)
JsonConfig_load(m, d) ==
    IF m.exc # "none" THEN m
    ELSE IF m.file[d] = NoFile THEN Raise(m, "FileNotFoundError")
    ELSE IF m.file[d] = Truncated THEN Raise(m, "JSONDecodeError")
    ELSE LET r == Parse(m.heap, m.file[d], <<>>)
             m1 == [m EXCEPT !.heap = r.heap, !.opts[d] = r.addr, !.last[d] = m.now]
         IN  IF m.tmpl[d] = 0 THEN m1
             ELSE LET t == m1.heap[m.tmpl[d]]
                      missing == (DOMAIN t) \ DOMAIN r.heap[r.addr]
                      filled == [k \in (DOMAIN t) \cup DOMAIN r.heap[r.addr] |->
                                    IF k \in missing THEN t[k] ELSE r.heap[r.addr][k]]
                      m2 == [m1 EXCEPT !.heap[r.addr] = filled]
                  IN  IF missing # {} THEN JsonConfig_write(m2, d) ELSE m2

\* JsonConfig.create (config.py 210-214)
JsonConfig_create(m, d) ==
    IF m.exc # "none" THEN m
    ELSE LET a == NewAddr(m.heap)
             seed == IF m.tmpl[d] # 0 THEN m.heap[m.tmpl[d]] ELSE EmptyDict
         IN  JsonConfig_write([m EXCEPT !.heap = (a :> seed) @@ m.heap, !.opts[d] = a], d)

\* JsonConfig.__init__ / init (config.py 167-181)
JsonConfig_init(m, d, template, check_date) ==
    LET m1 == [m EXCEPT !.tmpl[d] = template, !.check[d] = check_date]
    IN  IF m1.file[d] # NoFile THEN JsonConfig_load(m1, d) ELSE JsonConfig_create(m1, d)

\* -------------------------------------------------------------- inputs
\* File and template contents the environment may supply, per top-level key:
\* no entry, a scalar, {}, {"jobs": 2} or {"cron": {}}.
ShapeFlat(k, sh) ==
    CASE sh = "absent" -> {}
      [] sh = "scalar" -> {<< <<k>>, 1 >>}
      [] sh = "zero"   -> {<< <<k>>, 0 >>}
      [] sh = "empty"  -> {<< <<k>>, Obj >>}
      [] sh = "filled" -> {<< <<k>>, Obj >>, << <<k, "jobs">>, 2 >>}
      [] sh = "nested" -> {<< <<k>>, Obj >>, << <<k, "cron">>, Obj >>}
FlatOf(f) == {<< <<>>, Obj >>} \cup UNION {ShapeFlat(k, f[k]) : k \in Keys}
FileShapes == {"absent", "scalar", "empty"}
TemplateShapes == {"absent", "zero", "empty"}
FileContents == {FlatOf(f) : f \in [Keys -> FileShapes]}
TemplateContents == {FlatOf(f) : f \in [Keys -> TemplateShapes]}

TopKeys(flat) == {e[1][1] : e \in {x \in flat : Len(x[1]) = 1}}
\* the entries of a content that lie under the top-level keys K
Under(flat, K) == {e \in flat : Len(e[1]) >= 1 /\ e[1][1] \in K}

Blank ==
    [heap |-> <<>>, opts |-> [d \in Docs |-> 0], tmpl |-> [d \in Docs |-> 0],
     check |-> [d \in Docs |-> FALSE], sub |-> [s \in SubIds |-> NoSub],
     file |-> [d \in Docs |-> NoFile], mtime |-> [d \in Docs |-> 0],
     last |-> [d \in Docs |-> 0], now |-> 0, exc |-> "none", ret |-> 0, wrote |-> {}]

InitMem(m0) ==
    \E m \in {Collect(m0)} :
        /\ heap = m.heap /\ opts = m.opts /\ tmpl = m.tmpl /\ check = m.check
        /\ sub = m.sub /\ file = m.file /\ mtime = m.mtime /\ last = m.last
        /\ now = m.now /\ exc = m.exc /\ ret = m.ret /\ wrote = m.wrote

\* ------------------------------------------- one document and its views
\* The document under test: JsonConfig(path, template, check_date) built on
\* whatever the directory holds.
Dut == CHOOSE d \in Guilds : \A e \in Guilds : d <= e

WithTemplate(m, T) ==
    LET r == Parse(m.heap, T, <<>>)
    IN  [heap |-> r.heap, addr |-> r.addr]

JobTemplate == FlatOf([k \in Keys |-> "empty"])
DocContents == {FlatOf(f) : f \in [Keys -> {"absent", "scalar"}]}

\* JsonConfig(path, template, check_date) on a directory holding D; the
\* template, when there is one, is the dict built from T.
Construct(D, T, useT, cd) ==
    LET t == WithTemplate(Blank, T)
        m0 == [Blank EXCEPT !.heap = IF useT THEN t.heap ELSE <<>>,
                            !.file[Dut] = D]
    IN  JsonConfig_init(m0, Dut, IF useT THEN t.addr ELSE 0, cd)

Idle == [pc |-> "idle", phase |-> "", iter |-> <<>>, n |-> 0, pend |-> {}, cur |-> 0]

InitCore ==
    /\ queue = {}
    /\ sched = {}
    /\ jobs_resumed = FALSE
    /\ task = [h \in Handlers |-> Idle]
    /\ passes = 0
    /\ pass0 = [start |-> {}, clean |-> FALSE, redone |-> <<>>]
    /\ types = {}
    /\ statedb = <<>>
    /\ ninst = 0
    /\ gsret = 0

InitGhost ==
    /\ lastOp = "init"
    /\ extMod = {}
    /\ nops = 0
    /\ crashed = FALSE
    /\ db = <<>>
    /\ mirror = {}
    /\ InitCore

InitDoc ==
    /\ \E D \in {NoFile} \cup DocContents, cd \in BOOLEAN, useT \in BOOLEAN :
         InitMem(Construct(D, JobTemplate, useT, cd))
    /\ InitGhost

InitLoad ==
    /\ \E D \in {NoFile} \cup FileContents, T \in TemplateContents,
          useT \in BOOLEAN, cd \in BOOLEAN :
         /\ useT \/ T = FlatOf([k \in Keys |-> "absent"])
         /\ InitMem(Construct(D, T, useT, cd))
    /\ InitGhost

Cfgs == {Dut} \cup {SubCfg(s) : s \in {x \in SubIds : sub[x] # NoSub}}
IsScalarAt(c, k) == k \in DOMAIN heap[OptsAddr(Mem, c)] => ~IsRef(heap[OptsAddr(Mem, c)][k])
IsDictAt(c, k) == k \in DOMAIN heap[OptsAddr(Mem, c)] => IsRef(heap[OptsAddr(Mem, c)][k])

\* what a finished call leaves behind
Count ==
    /\ nops < MaxOps
    /\ nops' = nops + 1

Done(m, op) ==
    /\ Count
    /\ UNCHANGED coreVars
    /\ SetMem(m)
    /\ lastOp' = op
    /\ extMod' = extMod \ m.wrote
    /\ crashed' = FALSE

DoSet(c, k, v) ==
    /\ ~crashed
    /\ Done(ConfigMixin_set(Mem, c, k, v), "set")


DoGetAndSet(c, k, n) ==
    /\ ~crashed
    /\ IsScalarAt(c, k)
    /\ Done(ConfigMixin_get_and_set(Mem, c, k, MaxWith(n)), "get_and_set")

DoDelete(c, k, ign) ==
    /\ ~crashed
    /\ Done(ConfigMixin_delete(Mem, c, k, ign), "delete")

DoClear(c) ==
    /\ ~crashed
    /\ Done(clear(Mem, c), "clear")

DoGetAndClear(c) ==
    /\ ~crashed
    /\ Done(ConfigMixin_get_and_clear(Mem, c), "get_and_clear")

\* get_and_clear whose caller does not keep the returned dict
DoGetAndClearDropped(c) ==
    /\ ~crashed
    /\ Done([ConfigMixin_get_and_clear(Mem, c) EXCEPT !.ret = 0], "get_and_clear")

DoWrite(c) ==
    /\ ~crashed
    /\ Done(write(Mem, c), "write")

DoSub(c, k, s) ==
    /\ ~crashed
    /\ sub[s] = NoSub
    /\ IsDictAt(c, k)
    /\ Done(SubconfigMixin_sub(Mem, c, k, s), "sub")

\* sub.set(a, x); sub.clear(); sub.set(b, y) on a SubConfig obtained from the
\* document, run by one caller without an await in between.
SetClearSet(s, a, x, b, y) ==
    /\ ~crashed
    /\ sub[s] # NoSub
    /\ sub[s].parent = Dut
    /\ Done(Only({ConfigMixin_set(m2, SubCfg(s), b, y) :
                    m2 \in {clear(m1, SubCfg(s)) :
                       m1 \in {ConfigMixin_set(m0, SubCfg(s), a, x) : m0 \in {Mem}}}}),
            "set_clear_set")

\* the caller lets go of a SubConfig no other SubConfig has as parent
DropSub(s) ==
    /\ ~crashed
    /\ sub[s] # NoSub
    /\ \A x \in SubIds : sub[x] = NoSub \/ sub[x].parent # SubCfg(s)
    /\ Done([Mem EXCEPT !.sub[s] = NoSub], "drop")

DoLoad ==
    /\ ~crashed
    /\ LET m == JsonConfig_load(Mem, Dut)
       IN  /\ Count
           /\ UNCHANGED coreVars
           /\ SetMem(m)
           /\ lastOp' = "load"
           /\ extMod' = IF m.exc = "none" THEN extMod \ {Dut} ELSE extMod
           /\ crashed' = FALSE

\* the file is edited by hand, at the current time
ExternalEdit(D) ==
    /\ ~crashed
    /\ file[Dut] # NoFile
    /\ file[Dut] # D
    /\ Count
    /\ UNCHANGED coreVars
    /\ SetMem([Mem EXCEPT !.file[Dut] = D, !.mtime[Dut] = now])
    /\ lastOp' = "edit"
    /\ extMod' = extMod \cup {Dut}
    /\ crashed' = FALSE

Tick ==
    /\ ~crashed
    /\ now < MaxClock
    /\ Count
    /\ UNCHANGED coreVars
    /\ SetMem([Mem EXCEPT !.now = now + 1])
    /\ lastOp' = "tick"
    /\ UNCHANGED <<extMod, crashed>>

\* write() is cut short after open(): the process is killed, or json.dump
\* raises, before anything is written to the truncated file.
WriteInterrupted(d) ==
    /\ ~crashed
    /\ opts[d] # 0
    /\ ~JsonConfig_write_refused(Mem, d)
    /\ Count
    /\ UNCHANGED coreVars
    /\ SetMem(JsonConfig_write_open(Mem, d))
    /\ lastOp' = "write"
    /\ UNCHANGED extMod
    /\ crashed' = TRUE

vars == <<heap, opts, tmpl, check, sub, file, mtime, last, now, exc, ret, wrote,
          lastOp, extMod, nops, crashed,
          db, queue, sched, mirror, jobs_resumed, task, passes, pass0,
          types, statedb, ninst, gsret>>

ViewContents == {FlatOf(f) : f \in [Keys -> {"empty", "nested"}]}

InitView ==
    /\ \E D \in ViewContents : InitMem(Construct(D, JobTemplate, FALSE, FALSE))
    /\ InitGhost

NextView ==
    /\ nops < MaxViewOps
    /\ \/ \E c \in Cfgs, k \in Keys : DoSet(c, k, 1)
       \/ \E c \in Cfgs, k \in Keys : DoGetAndSet(c, k, 1)
       \/ \E c \in Cfgs, k \in Keys, ign \in BOOLEAN : DoDelete(c, k, ign)
       \/ \E c \in Cfgs : DoClear(c)
       \/ \E c \in Cfgs : DoGetAndClearDropped(c)
       \/ \E c \in Cfgs : DoWrite(c)
       \/ \E c \in Cfgs, k \in Keys, s \in SubIds : DoSub(c, k, s)
       \/ \E s \in SubIds : DropSub(s)
       \/ \E s \in SubIds, a \in Keys, b \in Keys : SetClearSet(s, a, 1, b, 2)

SpecView == InitView /\ [][NextView]_vars

NextDoc ==
    \/ \E k \in Keys, v \in Vals : DoSet(Dut, k, v)
    \/ \E k \in Keys, n \in Vals : DoGetAndSet(Dut, k, n)
    \/ \E k \in Keys, ign \in BOOLEAN : DoDelete(Dut, k, ign)
    \/ DoClear(Dut)
    \/ DoGetAndClear(Dut)
    \/ DoWrite(Dut)
    \/ DoLoad
    \/ \E D \in DocContents : ExternalEdit(D)
    \/ Tick
    \/ WriteInterrupted(Dut)

SpecDoc == InitDoc /\ [][NextDoc]_vars

\* A check_date document with nested dicts, its SubConfigs, and edits of the
\* file from outside.
InitSub ==
    /\ \E D \in ViewContents : InitMem(Construct(D, JobTemplate, FALSE, TRUE))
    /\ InitGhost

NextSub ==
    \/ \E c \in Cfgs, k \in Keys : DoSet(c, k, 1)
    \/ \E c \in Cfgs, k \in Keys : DoGetAndSet(c, k, 2)
    \/ \E c \in Cfgs, k \in Keys, ign \in BOOLEAN : DoDelete(c, k, ign)
    \/ \E c \in Cfgs : DoGetAndClear(c)
    \/ \E c \in Cfgs, k \in Keys, s \in SubIds : DoSub(c, k, s)
    \/ DoLoad
    \/ \E D \in ViewContents : ExternalEdit(D)
    \/ Tick

SpecSub == InitSub /\ [][NextSub]_vars

NextLoad ==
    \/ DoLoad
    \/ \E D \in FileContents : ExternalEdit(D)
    \/ \E k \in Keys : DoDelete(Dut, k, TRUE)
    \/ Tick

SpecLoad == InitLoad /\ [][NextLoad]_vars

\* ------------------------------------------------------------ CoreWrapper
\* Modelled: job_db with its one template object, the "_monky" document of
\* common_config_db, the five callbacks and __on_ready.  config_db (guildcfg)
\* never meets job_db and is left out.  Every guild named by a header is one
\* get_guild() knows.  The job module is not part of the sources here: its
\* queue and scheduler are the sets `queue` and `sched`, each change of which
\* calls the callback registered for it, and each awaited call on them is a
\* point where the coroutine may be suspended (the awaits on the factories
\* just before are folded into it).
\*
\* The wrapper's state as one value: the memory record and the wrapper's own
\* fields, so that the callbacks compose.
Core ==
    [m |-> Mem, db |-> db, queue |-> queue, sched |-> sched, mirror |-> mirror,
     resumed |-> jobs_resumed]

\* A config id as a caller passes it: the integer guild.id, or a string such
\* as a file stem.  str(cid) is the key of JsonConfigDB.db; Slot names the
\* Document registered under a key.
IntCid(g) == <<"int", g>>
StrCid(g) == <<"str", IdKey(g)>>
Cids == {IntCid(g) : g \in Guilds} \cup {StrCid(g) : g \in Guilds}
str(cid) == IF cid[1] = "int" THEN ToString(cid[2]) ELSE cid[2]
Slot(key) == CHOOSE g \in Guilds : IdKey(g) = key

\* JsonConfigDB.create_config (config.py 87-91)
JsonConfigDB_create_config(w0, cid) ==
    Only({[w EXCEPT !.m = JsonConfig_init(w.m, d, w.m.tmpl[d], FALSE),
                    !.db = IF InSeq(@, d) THEN @ ELSE Append(@, d)] :
            w \in {w0}, d \in {Slot(str(cid))}})

\* JsonConfigDB.get_config (config.py 79-85): created on a miss
JsonConfigDB_get_config(w, cid) ==
    IF InSeq(w.db, Slot(str(cid))) THEN w ELSE JsonConfigDB_create_config(w, cid)

\* JsonConfigDB.write_db (config.py 73-75)
RECURSIVE WriteEach(_, _)
WriteEach(m0, q) ==
    Only({IF q = <<>> THEN m ELSE WriteEach(JsonConfig_write(m, Head(q)), Tail(q)) :
          m \in {m0}})

JsonConfigDB_write_db(w) == [w EXCEPT !.m = WriteEach(w.m, w.db)]

\* The client's guilds are Guilds; Unknown is the id of a guild it is not in.
\* get_guild answers None for such an id.
Unknown == NGuilds + 1
None == 0

\* (mutant: an id that resolves to no guild falls back to a guild)
get_guild_some(gid) == IF gid \in Guilds THEN gid ELSE Dut

get_guild(gid) == IF gid \in Guilds THEN gid ELSE None

\* CoreWrapper.get_jobcfg_for_header (wrapper.py 123-127): guild.id on None
\* raises AttributeError before job_db is asked;  the Document it
\* returns is the one of get_guild(g)
get_jobcfg_for_header(w, g) ==
    IF w.m.exc # "none" THEN w
    ELSE IF get_guild(g) = None THEN [w EXCEPT !.m = Raise(@, "AttributeError")]
    ELSE JsonConfigDB_get_config(w, IntCid(get_guild(g)))

\* cfg.sub(name).<op>: the SubConfig lives for the statement only
Release(m) == [m EXCEPT !.sub[1] = NoSub]

\* (mutant: the entry is put in the dict and the write is left to a later call)
_cfg_job_create_unsaved(w, id, g) ==
    Only({[w2 EXCEPT !.m = Release([w2.m EXCEPT !.heap[OptsAddr(w2.m, SubCfg(1))] =
                                                   Put(@, IdKey(id), Hdr(id, g))])] :
            w2 \in {[w1 EXCEPT !.m = SubconfigMixin_sub(w1.m, get_guild(g), "jobs", 1)] :
               w1 \in {get_jobcfg_for_header(w, g)}}})

\* CoreWrapper._cfg_job_create (wrapper.py 134-136)
_cfg_job_create(w, id, g) ==
    Only({[w2 EXCEPT !.m = Release(ConfigMixin_set(w2.m, SubCfg(1), IdKey(id), Hdr(id, g)))] :
            w2 \in {[w1 EXCEPT !.m = SubconfigMixin_sub(w1.m, get_guild(g), "jobs", 1)] :
               w1 \in {get_jobcfg_for_header(w, g)}}})

\* (mutant: the delete of _cfg_job_delete without ignore_keyerror)
_cfg_job_delete_strict(w, id, g) ==
    Only({[w2 EXCEPT !.m = Release(ConfigMixin_delete(w2.m, SubCfg(1), IdKey(id), FALSE))] :
            w2 \in {[w1 EXCEPT !.m = SubconfigMixin_sub(w1.m, get_guild(g), "jobs", 1)] :
               w1 \in {get_jobcfg_for_header(w, g)}}})

\* CoreWrapper._cfg_job_delete (wrapper.py 139-141)
_cfg_job_delete(w, id, g) ==
    Only({[w2 EXCEPT !.m = Release(ConfigMixin_delete(w2.m, SubCfg(1), IdKey(id), TRUE))] :
            w2 \in {[w1 EXCEPT !.m = SubconfigMixin_sub(w1.m, get_guild(g), "jobs", 1)] :
               w1 \in {get_jobcfg_for_header(w, g)}}})

\* CoreWrapper._cfg_sched_create (wrapper.py 145-152): the entry is set and
\* written (146-147), then the counter (149-152)
_cfg_sched_create_entry(w, id, g) ==
    Only({[w2 EXCEPT !.m = Release(ConfigMixin_set(w2.m, SubCfg(1), IdKey(id), Hdr(id, g)))] :
            w2 \in {[w1 EXCEPT !.m = SubconfigMixin_sub(w1.m, get_guild(g), "cron", 1)] :
               w1 \in {get_jobcfg_for_header(w, g)}}})

_cfg_sched_create(w, id, g) ==
    Only({[w3 EXCEPT !.m = ConfigMixin_get_and_set(w3.m, MonkyDoc, "last_schedule_id",
                                                   MaxWith(id))] :
            w3 \in {_cfg_sched_create_entry(w, id, g)}})

\* CoreWrapper._cfg_sched_delete (wrapper.py 155-157)
_cfg_sched_delete(w, id, g) ==
    Only({[w2 EXCEPT !.m = Release(ConfigMixin_delete(w2.m, SubCfg(1), IdKey(id), FALSE))] :
            w2 \in {[w1 EXCEPT !.m = SubconfigMixin_sub(w1.m, get_guild(g), "cron", 1)] :
               w1 \in {get_jobcfg_for_header(w, g)}}})

\* The queue and the scheduler with the callbacks registered at
\* wrapper.py 61-70: each change of theirs calls its callback.
JobQueue_submit_job(w, id, g) ==
    Only({_cfg_job_create(w1, id, g) :
            w1 \in {[w EXCEPT !.queue = @ \cup {Hdr(id, g)},
                              !.mirror = @ \cup {<<"jobs", Hdr(id, g)>>}]}})

JobQueue_finish(w, id, g) ==
    Only({_cfg_job_delete(w1, id, g) :
            w1 \in {[w EXCEPT !.queue = @ \ {Hdr(id, g)},
                              !.mirror = @ \ {<<"jobs", Hdr(id, g)>>}]}})

JobCron_create_schedule(w, id, g) ==
    Only({_cfg_sched_create(w1, id, g) :
            w1 \in {[w EXCEPT !.sched = @ \cup {Hdr(id, g)},
                              !.mirror = @ \cup {<<"cron", Hdr(id, g)>>}]}})

JobCron_delete_schedule(w, id, g) ==
    Only({_cfg_sched_delete(w1, id, g) :
            w1 \in {[w EXCEPT !.sched = @ \ {Hdr(id, g)},
                              !.mirror = @ \ {<<"cron", Hdr(id, g)>>}]}})

SetCore(w, op) ==
    /\ SetMem(w.m)
    /\ db' = w.db
    /\ queue' = w.queue
    /\ sched' = w.sched
    /\ mirror' = w.mirror
    /\ jobs_resumed' = w.resumed
    /\ lastOp' = op
    /\ UNCHANGED gsVars
    /\ extMod' = extMod
    /\ crashed' = FALSE

\* no pass is under way; the resumption has run to completion
Quiet == \A h \in Handlers : task[h].pc \in {"idle", "done"}
Completed == Quiet /\ jobs_resumed /\ passes >= 1
NoPass == [start |-> {}, clean |-> FALSE, redone |-> <<>>]

\* An event from the queue, the scheduler or the guild list.  The history of
\* the resumption is kept for as long as no event has occurred since it began.
Event(w0, op) ==
    /\ nops < MaxEvents
    /\ nops' = nops + 1
    /\ \E w \in {w0} : SetCore(w, op)
    /\ pass0' = NoPass
    /\ UNCHANGED <<task, passes>>

InUse(kind) == {IdOf(e[2]) : e \in {x \in mirror : x[1] = kind}}

\* on_job_submit: a job enters the queue
JobSubmitted(id, g) ==
    /\ id \notin InUse("jobs")
    /\ Event(JobQueue_submit_job(Core, id, g), "job_submit")

\* A job leaves the queue by ending or by being cancelled, and both paths may
\* fire for the same job: the event is for a job of the queue, or for one of a
\* guild that has had jobs and whose id is no longer in use.
Leaving(id, g) ==
    Hdr(id, g) \in queue \/ (id \notin InUse("jobs") /\ InSeq(db, g))

\* on_job_stop: a job ends
JobStopped(id, g) ==
    /\ Leaving(id, g)
    /\ Event(JobQueue_finish(Core, id, g), "job_stop")

\* on_job_cancel: a job is cancelled
JobCancelled(id, g) ==
    /\ Leaving(id, g)
    /\ Event(JobQueue_finish(Core, id, g), "job_cancel")

\* the callbacks as registered at wrapper.py 61-70
Callbacks == {"on_job_submit", "on_job_stop", "on_job_cancel",
              "on_create_schedule", "on_delete_schedule"}
Callback(cb, w, id, g) ==
    CASE cb = "on_job_submit" -> _cfg_job_create(w, id, g)
      [] cb \in {"on_job_stop", "on_job_cancel"} -> _cfg_job_delete(w, id, g)
      [] cb = "on_create_schedule" -> _cfg_sched_create(w, id, g)
      [] cb = "on_delete_schedule" -> _cfg_sched_delete(w, id, g)

\* a callback is called with a header of a guild the client is not in
UnknownGuild(cb, id) ==
    Event(Callback(cb, Core, id, Unknown), "unknown_guild")

\* on_create_schedule
SchedCreated(id, g) ==
    /\ id \notin InUse("cron")
    /\ Event(JobCron_create_schedule(Core, id, g), "sched_create")

\* on_delete_schedule
SchedDeleted(id, g) ==
    /\ Hdr(id, g) \in sched
    /\ Event(JobCron_delete_schedule(Core, id, g), "sched_delete")

\* one iteration of join_guilds_offline (wrapper.py 160-165), or any other
\* caller of job_db.get_config
GetConfig(cid) ==
    Event(JsonConfigDB_get_config(Core, cid), "get_config")

\* the write_db() that ends join_guilds_offline (wrapper.py 167)
WriteDb ==
    /\ db # <<>>
    /\ Event(JsonConfigDB_write_db(Core), "write_db")

\* the entries the files of job_db's documents hold, as <<guild, name, header>>
StoredNow ==
    UNION {{<<g, p[1][1], p[2]>> : p \in {q \in file[g] : Len(q[1]) = 2}} :
              g \in {e \in Guilds : InSeq(db, e)}}

\* one more resumption of the header x
Tally(f, x) == IF x \in DOMAIN f THEN [f EXCEPT ![x] = @ + 1] ELSE (x :> 1) @@ f

\* (mutant: the flag is never consulted)
on_ready_skip_never(resumed) == FALSE

\* CoreWrapper.__on_ready (wrapper.py 170): `if not self.jobs_resumed`
on_ready_skip(resumed) == resumed

\* reschedule_all_cron then resume_jobs (wrapper.py 96-120, 171-173), run from
\* the top of a for-loop over job_db.db to the next await or to the end.
\* S.L holds the coroutine's locals: the loop it is in (phase), the documents
\* still to visit (iter), the dict's size when the loop began (n) and the
\* headers of the current snapshot not yet resumed (pend).
RECURSIVE Advance(_)
Advance(S0) ==
    Only({IF S.L.pend # {} THEN [S EXCEPT !.L.pc = "loop"]
          ELSE IF Len(S.w.db) # S.L.n THEN [S EXCEPT !.L.pc = "failed"]
          ELSE IF S.L.iter = <<>> THEN
              IF S.L.phase = "cron"
              THEN Advance([S EXCEPT !.L.phase = "jobs", !.L.iter = S.w.db,
                                     !.L.n = Len(S.w.db)])
              ELSE [S EXCEPT !.L.pc = "done", !.w.resumed = TRUE]
          ELSE Only({IF m2.exc # "none"
                     THEN [S EXCEPT !.w.m = [Release(m2) EXCEPT !.ret = 0], !.L.pc = "failed"]
                     ELSE Advance([S EXCEPT
                             !.w.m = [Release(m2) EXCEPT !.ret = 0],
                             !.L.iter = Tail(@),
                             !.L.pend = {m2.heap[m2.ret][k] : k \in DOMAIN m2.heap[m2.ret]}]) :
                     m2 \in {ConfigMixin_get_and_clear(m1, SubCfg(1)) :
                        m1 \in {SubconfigMixin_sub(S.w.m, Head(S.L.iter), S.L.phase, 1)}}}) :
          S \in {S0}})

\* the coroutine h stops: at the await of the next header of the snapshot
\* (any of those left: the order is that of the dict's insertions, which
\* the model does not keep), or for good
Suspend(h, S, op) ==
    /\ SetCore(S.w, op)
    /\ nops' = nops
    /\ IF S.L.pc = "loop"
       THEN \E x \in S.L.pend :
                task' = [task EXCEPT ![h] = [S.L EXCEPT !.pc = "await", !.cur = x,
                                                        !.pend = @ \ {x}]]
       ELSE task' = [task EXCEPT ![h] = [S.L EXCEPT !.iter = <<>>, !.n = 0, !.phase = ""]]

\* the history of the resumption; none is kept of one that failed, or once an
\* event has occurred
History(p, L) == IF L.pc = "failed" \/ ~p.clean THEN NoPass ELSE p

\* the ready signal arrives and __on_ready runs to its first await
OnReady(h) ==
    /\ task[h].pc = "idle"
    /\ \A g \in Handlers : g < h => task[g].pc # "idle"
    /\ IF on_ready_skip(jobs_resumed)
       THEN /\ task' = [task EXCEPT ![h].pc = "done"]
            /\ lastOp' = "ready"
            /\ crashed' = FALSE
            /\ UNCHANGED <<memVars, extMod, nops, db, queue, sched, mirror,
                           jobs_resumed, passes, pass0, gsVars>>
       ELSE /\ passes' = passes + 1
            /\ \E S \in {Advance([w |-> Core,
                                  L |-> [Idle EXCEPT !.pc = "run", !.phase = "cron",
                                                     !.iter = db, !.n = Len(db)]])} :
                   /\ Suspend(h, S, "ready")
                   /\ pass0' = History(IF passes = 0
                                       THEN [start |-> StoredNow, clean |-> TRUE,
                                             redone |-> <<>>]
                                       ELSE pass0, S.L)

\* the awaited create_schedule / submit_job completes and the loop goes on
AwaitDone(h) ==
    /\ task[h].pc = "await"
    /\ UNCHANGED passes
    /\ \E w1 \in {IF task[h].phase = "cron"
                   THEN JobCron_create_schedule(Core, IdOf(task[h].cur), GuildOf(task[h].cur))
                   ELSE JobQueue_submit_job(Core, IdOf(task[h].cur), GuildOf(task[h].cur))} :
          \E S \in {IF w1.m.exc # "none"
                    THEN [w |-> w1, L |-> [task[h] EXCEPT !.cur = 0, !.pc = "failed"]]
                    ELSE Advance([w |-> w1, L |-> [task[h] EXCEPT !.cur = 0, !.pc = "run"]])} :
              /\ Suspend(h, S, "resume")
              /\ pass0' = History([pass0 EXCEPT
                                      !.redone = Tally(@, <<task[h].phase, task[h].cur>>)],
                                  S.L)

\* CoreWrapper.__init__ (wrapper.py 25-87) on a directory holding F: the
\* templates, load_db over the files there, then the "_monky" document.
MonkyTemplate == {<< <<>>, Obj >>, << <<"last_schedule_id">>, 0 >>}

Stored(g) ==
    {<< <<>>, Obj >>, << <<"jobs">>, Obj >>, << <<"cron">>, Obj >>,
     << <<"jobs", IdKey(g)>>, Hdr(g, g) >>, << <<"cron", IdKey(g)>>, Hdr(g, g) >>}

MonkyFile(F) ==
    LET used == {g \in Guilds : F[g] = Stored(g)}
    IN  IF used = {} THEN NoFile
        ELSE {<< <<>>, Obj >>,
              << <<"last_schedule_id">>, CHOOSE g \in used : \A e \in used : e <= g >>}

\* JsonConfigDB.load_db (config.py 60-71)
RECURSIVE load_db(_, _)
load_db(w0, g) ==
    Only({IF g > NGuilds THEN w
          ELSE IF w.m.file[g] = NoFile THEN load_db(w, g + 1)
          ELSE load_db(JsonConfigDB_create_config(w, StrCid(g)), g + 1) : w \in {w0}})

Directories ==
    {[g \in Guilds |-> NoFile], [g \in Guilds |-> {<< <<>>, Obj >>}],
     [g \in Guilds |-> IF g = Dut THEN Stored(g) ELSE NoFile]}

\* the same on the files `files`, that of "_monky" included
CoreWrapper_start(files) ==
    LET t1 == WithTemplate(Blank, JobTemplate)
        t2 == Parse(t1.heap, MonkyTemplate, <<>>)
        m0 == [Blank EXCEPT !.heap = t2.heap,
                            !.tmpl = [d \in Docs |-> IF d = MonkyDoc THEN t2.addr ELSE t1.addr],
                            !.file = files]
        w0 == [m |-> m0, db |-> <<>>, queue |-> {}, sched |-> {}, mirror |-> {},
               resumed |-> FALSE]
        w1 == load_db(w0, 1)
    IN  [w1 EXCEPT !.m = JsonConfig_init(w1.m, MonkyDoc, t2.addr, FALSE)]

CoreWrapper_init(F) ==
    LET t1 == WithTemplate(Blank, JobTemplate)
        t2 == Parse(t1.heap, MonkyTemplate, <<>>)
        m0 == [Blank EXCEPT !.heap = t2.heap,
                            !.tmpl = [d \in Docs |-> IF d = MonkyDoc THEN t2.addr ELSE t1.addr],
                            !.file = [d \in Docs |-> IF d = MonkyDoc THEN MonkyFile(F) ELSE F[d]]]
        w0 == [m |-> m0, db |-> <<>>, queue |-> {}, sched |-> {}, mirror |-> {},
               resumed |-> FALSE]
        w1 == load_db(w0, 1)
    IN  [w1 EXCEPT !.m = JsonConfig_init(w1.m, MonkyDoc, t2.addr, FALSE)]

Init ==
    \E F \in Directories :
        \E w \in {CoreWrapper_init(F)} :
            /\ InitMem(w.m)
            /\ db = w.db
            /\ mirror = UNION {{<<"jobs", Hdr(g, g)>>, <<"cron", Hdr(g, g)>>} :
                                  g \in {e \in Guilds : F[e] = Stored(e)}}
            /\ InitCore
            /\ lastOp = "init"
            /\ extMod = {}
            /\ nops = 0
            /\ crashed = FALSE

Next ==
    \/ \E id \in Ids, g \in Guilds : JobSubmitted(id, g)
    \/ \E id \in Ids, g \in Guilds : JobStopped(id, g)
    \/ \E id \in Ids, g \in Guilds : JobCancelled(id, g)
    \/ \E id \in Ids, g \in Guilds : SchedCreated(id, g)
    \/ \E id \in Ids, g \in Guilds : SchedDeleted(id, g)
    \/ \E cid \in Cids : GetConfig(cid)
    \/ \E cb \in Callbacks, id \in Ids : UnknownGuild(cb, id)
    \/ WriteDb
    \/ \E h \in Handlers : OnReady(h)
    \/ \E h \in Handlers : AwaitDone(h)

Spec == Init /\ [][Next]_vars

\* ------------------------------------------------------ crash and restart
\* The process may be killed between any two steps, and inside
\* _cfg_sched_create between its two writes; the files stay as they are.  A
\* restart builds a new CoreWrapper on them.  A coroutine killed at an await
\* keeps, of the headers it had captured and not yet resubmitted, those that
\* no file holds.  mirror stands for the ids issued so far, which no later
\* submission reuses.
DurableIn(f) ==
    {<<p[1][1], p[2]>> : p \in UNION {{q \in f[g] : Len(q[1]) = 2} : g \in Guilds}}
Durable == DurableIn(file)

Die(w, op) ==
    /\ ~crashed
    /\ nops < MaxEvents
    /\ nops' = nops + 1
    /\ SetMem(w.m)
    /\ db' = w.db /\ queue' = w.queue /\ sched' = w.sched /\ mirror' = w.mirror
    /\ jobs_resumed' = w.resumed
    /\ lastOp' = op
    /\ crashed' = TRUE
    /\ task' = [h \in Handlers |->
                  IF task[h].pc # "await" THEN task[h]
                  ELSE [task[h] EXCEPT
                          !.pc = "killed", !.cur = 0,
                          !.pend = {x \in task[h].pend \cup {task[h].cur} :
                                       <<task[h].phase, x>> \notin DurableIn(w.m.file)}]]
    /\ pass0' = NoPass
    /\ UNCHANGED <<passes, extMod, gsVars>>

Kill == Die(Core, "kill")

KillInSchedCreate(id, g) ==
    /\ id \notin InUse("cron")
    /\ Die(Only({_cfg_sched_create_entry(w1, id, g) :
                    w1 \in {[Core EXCEPT !.sched = @ \cup {Hdr(id, g)},
                                         !.mirror = @ \cup {<<"cron", Hdr(id, g)>>}]}}),
           "kill_sched_create")

Restart ==
    /\ crashed
    /\ \E w \in {CoreWrapper_start(file)} :
          /\ SetMem(w.m)
          /\ db' = w.db /\ queue' = w.queue /\ sched' = w.sched
          /\ jobs_resumed' = w.resumed
    /\ lastOp' = "restart"
    /\ crashed' = FALSE
    /\ passes' = 0
    /\ pass0' = NoPass
    /\ UNCHANGED <<mirror, task, nops, extMod, gsVars>>

\* one resumption pass at a time
NoPassRunning == \A h \in Handlers : task[h].pc # "await"

NextCrash ==
    \/ ~crashed /\ \E id \in Ids, g \in Guilds : JobSubmitted(id, g)
    \/ ~crashed /\ \E id \in Ids, g \in Guilds : SchedCreated(id, g)
    \/ ~crashed /\ NoPassRunning /\ \E h \in Handlers : OnReady(h)
    \/ ~crashed /\ \E h \in Handlers : AwaitDone(h)
    \/ Kill
    \/ \E id \in Ids, g \in Guilds : KillInSchedCreate(id, g)
    \/ Restart

SpecCrash == Init /\ [][NextCrash]_vars

\* The ready signal comes first: the queue and the scheduler are empty until
\* a pass has begun, so every job of the queue was submitted during the pass
\* or after it.
NextReady ==
    \/ passes >= 1 /\ \E id \in Ids, g \in Guilds : JobSubmitted(id, g)
    \/ passes >= 1 /\ \E id \in Ids, g \in Guilds : SchedCreated(id, g)
    \/ NoPassRunning /\ \E h \in Handlers : OnReady(h)
    \/ \E h \in Handlers : AwaitDone(h)

SpecReady == Init /\ [][NextReady]_vars

\* ----------------------------------------------------------- GuildStateDB
\* What CoreWrapper does with gs_db: gstype (register_cls), gs (get) and
\* __on_guild_remove (delete).  No code here calls unregister_cls or
\* iter_over_type.  A state class is named by its typekey; "X" is a class that
\* does not subclass GuildStateBase, "Y" a subclass of it whose own __init__
\* does not take (bot, guild).
StateTypes == {"A", "B"}
Subclasses == StateTypes \cup {"Y"}
Classes == Subclasses \cup {"X"}

\* what a caller may pass as guild_entity: None, an int, a Guild, an object
\* with a .guild (which is None outside a guild: <<"ctx", 0>>), anything else
Entities ==
    {<<"none", 0>>, <<"other", 0>>, <<"ctx", 0>>}
        \cup {<<k, g>> : k \in {"int", "guild", "ctx"}, g \in Guilds}

GsDb == [types |-> types, statedb |-> statedb, ninst |-> ninst, ret |-> 0, exc |-> "none"]

\* GuildStateDB._get_guild_and_id (wrapper.py 823-837): the guild id, or the
\* exception raised
GuildStateDB_get_guild_and_id(e) ==
    CASE e[1] = "none" -> [exc |-> "GuildRequiredException", id |-> 0]
      [] e[1] = "int" -> [exc |-> "none", id |-> e[2]]
      [] e[1] = "guild" -> [exc |-> "none", id |-> e[2]]
      [] e[1] = "ctx" -> IF e[2] = 0 THEN [exc |-> "AttributeError", id |-> 0]
                         ELSE [exc |-> "none", id |-> e[2]]
      [] OTHER -> [exc |-> "TypeError", id |-> 0]

\* (mutant: a second registration replaces the first)
GuildStateDB_register_cls_again(d, T) ==
    IF T \notin Subclasses THEN [d EXCEPT !.exc = "GuildStateException"]
    ELSE [d EXCEPT !.types = @ \cup {T},
                   !.statedb = [U \in d.types \cup {T} |-> IF U = T THEN <<>> ELSE @[U]]]

\* GuildStateDB.register_cls (wrapper.py 803-814)
GuildStateDB_register_cls(d, T) ==
    IF T \notin Subclasses THEN [d EXCEPT !.exc = "GuildStateException"]
    ELSE IF T \in d.types THEN [d EXCEPT !.exc = "GuildStateException"]
    ELSE [d EXCEPT !.types = @ \cup {T}, !.statedb = (T :> <<>>) @@ @]

\* (mutant: an instance is constructed on every call)
GuildStateDB_get_fresh(d, T, e) ==
    LET r == GuildStateDB_get_guild_and_id(e)
    IN  IF r.exc # "none" THEN [d EXCEPT !.exc = r.exc]
        ELSE IF T \notin d.types THEN [d EXCEPT !.exc = "GuildStateException"]
        ELSE [d EXCEPT !.statedb[T] = (r.id :> d.ninst + 1) @@ @,
                       !.ninst = @ + 1, !.ret = d.ninst + 1]

\* GuildStateDB.get (wrapper.py 845-862)
GuildStateDB_get(d, T, e) ==
    LET r == GuildStateDB_get_guild_and_id(e)
    IN  IF r.exc # "none" THEN [d EXCEPT !.exc = r.exc]
        ELSE IF T \notin d.types THEN [d EXCEPT !.exc = "GuildStateException"]
        ELSE IF r.id \in DOMAIN d.statedb[T] THEN [d EXCEPT !.ret = d.statedb[T][r.id]]
        ELSE IF T \notin StateTypes THEN [d EXCEPT !.exc = "TypeError"]
        ELSE [d EXCEPT !.statedb[T] = (r.id :> d.ninst + 1) @@ @,
                       !.ninst = @ + 1, !.ret = d.ninst + 1]

\* GuildStateDB.delete (wrapper.py 865-870): `del guild_id[states]` deletes
\* an item of the int guild_id, which raises TypeError
GuildStateDB_delete(d, e) ==
    LET r == GuildStateDB_get_guild_and_id(e)
    IN  IF r.exc # "none" THEN [d EXCEPT !.exc = r.exc]
        ELSE IF \E T \in d.types : r.id \in DOMAIN d.statedb[T]
             THEN [d EXCEPT !.exc = "TypeError"]
             ELSE d

GsDone(d, op) ==
    /\ nops < MaxOps
    /\ nops' = nops + 1
    /\ types' = d.types
    /\ statedb' = d.statedb
    /\ ninst' = d.ninst
    /\ gsret' = d.ret
    /\ exc' = d.exc
    /\ lastOp' = op
    /\ UNCHANGED <<heap, opts, tmpl, check, sub, file, mtime, last, now, ret, wrote,
                   extMod, crashed, db, queue, sched, mirror, jobs_resumed, task, passes,
                   pass0>>

\* CoreWrapper.gstype (wrapper.py 239-240)
GsType(T) == GsDone(GuildStateDB_register_cls(GsDb, T), "gstype")

\* CoreWrapper.gs (wrapper.py 245-246)
Gs(T, e) == GsDone(GuildStateDB_get(GsDb, T, e), "gs")

\* CoreWrapper.__on_guild_remove (wrapper.py 187-189)
OnGuildRemove(g) == GsDone(GuildStateDB_delete(GsDb, <<"guild", g>>), "guild_remove")

NextState ==
    \/ \E T \in Classes : GsType(T)
    \/ \E T \in Classes, e \in Entities : Gs(T, e)
    \/ \E g \in Guilds : OnGuildRemove(g)

\* CoreWrapper.__init__ (wrapper.py 53): an empty GuildStateDB
InitState == InitMem(Blank) /\ InitGhost

SpecState == InitState /\ [][NextState]_vars

\* ---------------------------------------------------------------- claims
Root == heap[opts[Dut]]
Disk == file[Dut]
Content(a) == Serialize(heap, a)
EmptyFile == {<< <<>>, Obj >>}

\* C1: across one process lifetime the resumption pass (reschedule_all_cron
\* then resume_jobs) is started at most once, however many ready signals
\* arrive and whenever they arrive.
C1_ResumeOnce == passes <= 1

\* C2: a ready signal that arrives after an earlier __on_ready has returned
\* starts no pass, submits no job, creates no schedule and leaves every
\* document and file as it was; if it is the second signal, exactly one pass
\* has been performed.
C2_SecondReadyIdle ==
    [][\A h \in Handlers :
          (lastOp' = "ready" /\ OnReady(h) /\ \E g \in Handlers : task[g].pc = "done") =>
              /\ passes' = passes
              /\ passes >= 1
              /\ Cardinality({g \in Handlers : task[g].pc # "idle"}) = 1 => passes' = 1
              /\ task'[h].pc = "done"
              /\ UNCHANGED <<heap, opts, file, db, queue, sched>>]_vars

C2_Witness ==
    /\ lastOp = "ready"
    /\ \A h \in Handlers : h <= 2 => task[h].pc = "done"
    /\ passes = 1
    /\ queue # {}
    /\ sched # {}

Persisted(g, name) == {p[1][2] : p \in {q \in file[g] : Len(q[1]) = 2 /\ q[1][1] = name}}
Outstanding(g, name) ==
    {IdKey(IdOf(e[2])) : e \in {x \in mirror : x[1] = name /\ GuildOf(x[2]) = g}}

\* C3: whenever no resumption pass is under way, for every guild the keys
\* persisted under "jobs" in its file are the ids of the jobs submitted for it
\* and not since stopped or cancelled, and the keys persisted under "cron" are
\* the ids of the schedules created for it and not since deleted.
C3_DurableMirror ==
    Quiet => \A g \in Guilds : \A name \in Keys : Persisted(g, name) = Outstanding(g, name)

DocEvent(g) ==
    \E id \in Ids :
        \/ JobSubmitted(id, g) \/ JobStopped(id, g) \/ JobCancelled(id, g)
        \/ SchedCreated(id, g) \/ SchedDeleted(id, g)

\* C4: a set or delete made through a SubConfig of one guild's document leaves
\* the opts and the file of every other document of job_db, and the store's
\* template, as they were.
C4_ExclusiveOwnership ==
    [][\A g \in Guilds :
          DocEvent(g) =>
              /\ \A e \in Guilds \ {g} :
                     /\ file'[e] = file[e]
                     /\ InSeq(db, e) => Serialize(heap', opts'[e]) = Serialize(heap, opts[e])
              /\ Serialize(heap', tmpl'[g]) = Serialize(heap, tmpl[g])]_vars

\* C5: whenever the parent of a SubConfig holds a dict under the SubConfig's
\* name, the SubConfig's opts is that very dict, never a detached one.
C5_LiveView ==
    \A s \in SubIds :
        sub[s] # NoSub =>
            LET p == heap[OptsAddr(Mem, sub[s].parent)]
            IN  sub[s].name \in DOMAIN p /\ IsRef(p[sub[s].name]) =>
                    p[sub[s].name] = Ref(sub[s].opts)

\* C6: sub.set(a, x); sub.clear(); sub.set(b, y) through a view of key k
\* leaves {b: y} at k, in memory and in the file, and the other top-level
\* keys of the document as they were.
C6_ClearThenSet ==
    [][\A s \in SubIds, a \in Keys, b \in Keys :
          lastOp' = "set_clear_set" /\ exc' = "none" /\ SetClearSet(s, a, 1, b, 2) =>
              LET k == sub[s].name
                  after == Serialize(heap', opts'[Dut])
              IN  /\ Under(after, {k}) = {<< <<k>>, Obj >>, << <<k, b>>, 2 >>}
                  /\ Under(after, Keys \ {k}) = Under(Content(opts[Dut]), Keys \ {k})
                  /\ file'[Dut] = after
                  /\ heap'[sub'[s].opts] = (b :> 2)
      ]_vars

C6_Witness ==
    /\ lastOp = "set_clear_set"
    /\ exc = "none"
    /\ \E s \in SubIds :
          /\ sub[s] # NoSub
          /\ sub[s].parent = Dut
          /\ heap[sub[s].opts] = ("cron" :> 2)
          /\ Under(Disk, {sub[s].name}) = {<< <<sub[s].name>>, Obj >>, << <<sub[s].name, "cron">>, 2 >>}
          /\ Under(Disk, Keys \ {sub[s].name}) # {}

\* C7: with check_date, a write() with no outside edit since the last
\* load/write succeeds; a write() of a file whose mtime is later than
\* last_readwrite_date raises ConfigException and changes neither the file
\* nor last_readwrite_date.
C7_CheckDate ==
    [][lastOp' = "write" /\ check[Dut] /\ DoWrite(Dut) =>
          /\ (Dut \notin extMod => exc' = "none" /\ file'[Dut] = Content(opts[Dut]))
          /\ (Disk # NoFile /\ mtime[Dut] > last[Dut] =>
                 /\ exc' = "ConfigException"
                 /\ file' = file /\ mtime' = mtime /\ last' = last)
      ]_vars

C7_Witness ==
    /\ lastOp = "write"
    /\ exc = "ConfigException"
    /\ check[Dut]
    /\ Dut \in extMod
    /\ Disk # Content(opts[Dut])

\* C8: the file of a document is never observed empty or partially written.
C8_WriteAtomic == \A d \in Docs : file[d] # Truncated

\* C9: load() keeps every entry of the file, adds the template's entry for
\* each key the file lacks, and rewrites the file exactly when it added one.
TemplateOf(d) == IF tmpl[d] = 0 THEN EmptyFile ELSE Content(tmpl[d])
C9_LoadAdditive ==
    [][lastOp' = "load" /\ exc' = "none" /\ DoLoad =>
          LET missing == TopKeys(TemplateOf(Dut)) \ TopKeys(Disk)
              after == Serialize(heap', opts'[Dut])
          IN  /\ after = Disk \cup Under(TemplateOf(Dut), missing)
              /\ (Dut \in wrote') = (missing # {})
              /\ file'[Dut] = IF missing # {} THEN after ELSE Disk
      ]_vars

C9_Witness ==
    /\ lastOp = "load"
    /\ exc = "none"
    /\ wrote = {Dut}
    /\ \E k \in TopKeys(Disk) \cap TopKeys(TemplateOf(Dut)) :
          ValueAt(Disk, <<k>>) # ValueAt(TemplateOf(Dut), <<k>>)

\* C10: get_and_clear on a document returns a dict equal to the data it
\* held, leaves opts and the file empty, and no later operation adds a key
\* to or removes a key from the returned dict.
C10_GetAndClear ==
    [][/\ lastOp' = "get_and_clear" /\ exc' = "none" /\ DoGetAndClear(Dut) =>
             /\ ret' # 0
             /\ Serialize(heap', ret') = Content(opts[Dut])
             /\ heap'[opts'[Dut]] = EmptyDict
             /\ file'[Dut] = EmptyFile
       /\ ret # 0 /\ ~(lastOp' = "get_and_clear" /\ exc' = "none") =>
             ret' # 0 /\ DOMAIN heap'[ret'] = DOMAIN heap[ret]
      ]_vars

C10_Witness ==
    /\ ret # 0
    /\ lastOp = "set"
    /\ exc = "none"
    /\ DOMAIN heap[ret] = Keys
    /\ DOMAIN Root # Keys
\* C11: a schedule-created event, fired by a command or by the resumption
\* pass, leaves the persisted last_schedule_id at the maximum of its former
\* value and the schedule's id; no other step changes it.
Counter == ValueAt(file[MonkyDoc], <<"last_schedule_id">>)
C11_CounterMonotonic ==
    [][/\ \A id \in Ids, g \in Guilds :
             lastOp' = "sched_create" /\ SchedCreated(id, g) => Counter' = Max(Counter, id)
       /\ \A h \in Handlers :
             lastOp' = "resume" /\ task[h].phase = "cron" /\ AwaitDone(h) =>
                 Counter' = Max(Counter, IdOf(task[h].cur))
       /\ Counter' >= Counter
       /\ lastOp' \notin {"sched_create", "resume"} => Counter' = Counter
      ]_vars

\* schedule 1 has just been created after schedule 2 had been created and
\* deleted
C11_Witness ==
    /\ lastOp = "sched_create"
    /\ {IdOf(x) : x \in sched} = {1}
    /\ passes = 0
    /\ Counter = 2
\* C12: gs(T, e) for a registered T returns the instance cached for (T, id)
\* when there is one and changes nothing; otherwise it constructs one new
\* instance, caches it under (T, id) and touches no other entry.  No other
\* successful call replaces or removes a cached instance.
Cached(T, g) == T \in types /\ g \in DOMAIN statedb[T]
Instances == UNION {{statedb[T][g] : g \in DOMAIN statedb[T]} : T \in types}
C13_DeleteRemoves ==
    [][\A g \in Guilds :
          lastOp' = "guild_remove" /\ OnGuildRemove(g) =>
              /\ exc' = "none"
              /\ \A T \in types : g \notin DOMAIN statedb'[T]
              /\ \A T \in types, e \in Guilds \ {g} :
                     Cached(T, e) => Cached(T, e)' /\ statedb'[T][e] = statedb[T][e]
      ]_vars

\* C14: no job is about to be resubmitted while a schedule header captured
\* by the resumption is still waiting to be re-created.
Resubmitting(h) == task[h].pc = "await" /\ task[h].phase = "jobs"
Recreating(h) == task[h].pc = "await" /\ task[h].phase = "cron"
C14_SchedulesFirst ==
    \A h \in Handlers : Resubmitting(h) => \A g \in Handlers : ~Recreating(g)

\* C15: once the resumption has run to completion with no other event since
\* it began, every header the files of job_db held when it began has been
\* re-created or resubmitted exactly once.
Resumed(name, hdr) ==
    IF <<name, hdr>> \in DOMAIN pass0.redone THEN pass0.redone[<<name, hdr>>] ELSE 0
C15_ExactlyOnce ==
    Completed /\ pass0.clean => \A x \in pass0.start : Resumed(x[2], x[3]) = 1

\* C16: when the resumption completes with no other event since it began,
\* every guild's file holds under "cron" and "jobs" exactly the ids it held
\* when the resumption began.
IdsOf(stored) == {<<x[1], x[2], IdOf(x[3])>> : x \in stored}
C16_RoundTrip ==
    Completed /\ pass0.clean => IdsOf(StoredNow) = IdsOf(pass0.start)

\* C17: get_config keeps at most one Document per id, ids compared as
\* strings: a call for a registered id returns the registered Document and
\* constructs nothing; a call for an absent id registers one Document whose
\* file then holds the template defaults, and leaves every registered
\* Document and its file as they were.
Registered(d) == InSeq(db, d)
C17_OnePerId ==
    [][\A cid \in Cids :
          lastOp' = "get_config" /\ GetConfig(cid) =>
              LET d == Slot(str(cid))
              IN  /\ exc' = "none"
                  /\ Registered(d)'
                  /\ \A e \in Guilds \ {d} : Registered(e)' = Registered(e)
                  /\ \A e \in Guilds :
                         Registered(e) =>
                             /\ Serialize(heap', opts'[e]) = Serialize(heap, opts[e])
                             /\ file'[e] = file[e]
                             /\ e \notin wrote'
                  /\ Registered(d) => db' = db /\ heap' = heap /\ opts' = opts
                  /\ ~Registered(d) =>
                         /\ file'[d] = JobTemplate
                         /\ Serialize(heap', opts'[d]) = JobTemplate
      ]_vars

\* C18: delete(key) without ignore_keyerror on a document or sub-document
\* that lacks the key raises KeyError, writes nothing, and leaves the data in
\* memory and the file as they were.
Lacks(c, k) == k \notin DOMAIN heap[OptsAddr(Mem, c)]
C18_DeleteMissing ==
    [][\A c \in Cfgs, k \in Keys :
          lastOp' = "delete" /\ Lacks(c, k) /\ DoDelete(c, k, FALSE) =>
              /\ exc' = "KeyError"
              /\ wrote' = {}
              /\ heap' = heap /\ opts' = opts /\ sub' = sub
              /\ file' = file /\ mtime' = mtime
      ]_vars
C18_Witness ==
    /\ lastOp = "delete" /\ exc = "KeyError"
    /\ \E s \in SubIds : sub[s] # NoSub

\* C19: a job-stopped and a job-cancelled event for the same id both complete
\* without error, whichever comes first and whether or not the id is stored:
\* the one that finds the id stored removes it and writes the guild's file,
\* the one that finds it absent writes nothing and changes nothing, so that
\* the file after both is the file after one.
InMemory(g, name) ==
    {p[1][2] : p \in {q \in Serialize(heap, opts[g]) : Len(q[1]) = 2 /\ q[1][1] = name}}
C19_CleanupIdempotent ==
    [][\A id \in Ids, g \in Guilds :
          /\ lastOp' \in {"job_stop", "job_cancel"}
          /\ JobStopped(id, g) \/ JobCancelled(id, g)
          => /\ exc' = "none"
             /\ IdKey(id) \notin InMemory(g, "jobs")'
             /\ IF IdKey(id) \in InMemory(g, "jobs")
                THEN /\ wrote' = {g}
                     /\ file'[g] = Serialize(heap', opts'[g])
                     /\ IdKey(id) \notin Persisted(g, "jobs")'
                ELSE /\ wrote' = {}
                     /\ file' = file /\ heap' = heap /\ opts' = opts /\ db' = db
      ]_vars
C19_Witness ==
    /\ lastOp = "job_stop" /\ exc = "none" /\ wrote = {}
    /\ \E g \in Guilds : InSeq(db, g) /\ Persisted(g, "jobs") # {}

\* C20: a callback called with a header whose guild the client cannot resolve
\* ends in an error, creates no Document in job_db, and changes no Document
\* and no file.
C20_UnknownGuild ==
    [][lastOp' = "unknown_guild" /\ (\E cb \in Callbacks, id \in Ids : UnknownGuild(cb, id)) =>
          /\ exc' # "none"
          /\ db' = db
          /\ wrote' = {}
          /\ heap' = heap /\ opts' = opts /\ file' = file /\ mtime' = mtime
      ]_vars
C20_Witness ==
    /\ lastOp = "unknown_guild" /\ exc = "AttributeError"
    /\ db # <<>>

Mutated ==
    \/ lastOp' \in {"set", "get_and_set", "get_and_clear", "set_clear_set"}
    \/ /\ lastOp' = "delete"
       /\ \E c \in Cfgs, k \in Keys, ign \in BOOLEAN : ~Lacks(c, k) /\ DoDelete(c, k, ign)
C22_SyncPersist ==
    [][~check[Dut] /\ exc' = "none" /\ Mutated =>
          /\ Dut \in wrote'
          /\ file'[Dut] = Serialize(heap', opts'[Dut])
      ]_vars
\* a key has been set in a SubConfig of a SubConfig
C22_Witness ==
    /\ lastOp = "set" /\ exc = "none"
    /\ \E p \in file[Dut] : Len(p[1]) = 3 /\ p[2] = 1

\* C23: clear() empties the opts of the document or SubConfig it is called
\* on and writes nothing: the file, its date and last_readwrite_date stay as
\* they were.  SubConfig.clear() puts an empty dict under its name in its
\* parent and leaves the parent's other keys alone.
ParentContent(s) == Serialize(heap, OptsAddr(Mem, sub[s].parent))
C23_ClearInMemory ==
    [][\A c \in Cfgs :
          lastOp' = "clear" /\ DoClear(c) =>
              /\ exc' = "none"
              /\ wrote' = {}
              /\ file' = file /\ mtime' = mtime /\ last' = last
              /\ IF IsSub(c)
                 THEN LET s == SubOf(c)
                          k == sub[s].name
                      IN  /\ heap'[sub'[s].opts] = EmptyDict
                          /\ Under(ParentContent(s)', {k}) = {<< <<k>>, Obj >>}
                          /\ Under(ParentContent(s)', Keys \ {k})
                                = Under(ParentContent(s), Keys \ {k})
                 ELSE Serialize(heap', opts'[c]) = EmptyFile
      ]_vars
\* a SubConfig has just been cleared: the file still holds what it held
C23_Witness ==
    /\ lastOp = "clear"
    /\ \E s \in SubIds :
          /\ sub[s] # NoSub
          /\ heap[sub[s].opts] = EmptyDict
          /\ Under(Disk, {sub[s].name}) # Under(Content(opts[Dut]), {sub[s].name})
          /\ Under(Content(opts[Dut]), Keys \ {sub[s].name}) # {}

\* C24: with check_date, while the file's modification date is later than
\* last_readwrite_date, write() and every operation that ends in write()
\* raise ConfigException and leave the file alone, and only load() ends that;
\* load() leaves the file's content plus the template's missing keys in opts
\* and brings last_readwrite_date up to date, and a write() with no outside
\* edit since succeeds.
Outdated == check[Dut] /\ Disk # NoFile /\ mtime[Dut] > last[Dut]
Writing ==
    \/ lastOp' \in {"write", "set", "get_and_clear"}
    \/ lastOp' \in {"get_and_set", "delete"} /\ DOMAIN heap'[opts'[Dut]] # DOMAIN Root
    \/ lastOp' \in {"get_and_set", "delete"} /\ exc' = "ConfigException"
C24_ReloadBaseline ==
    [][/\ Outdated /\ Writing =>
             /\ exc' = "ConfigException"
             /\ wrote' = {}
             /\ file' = file /\ mtime' = mtime /\ last' = last
       /\ Outdated /\ lastOp' # "load" => Outdated'
       /\ Outdated /\ lastOp' = "load" /\ exc' = "none" =>
             /\ ~Outdated'
             /\ last'[Dut] = now
             /\ Serialize(heap', opts'[Dut])
                   = Disk \cup Under(TemplateOf(Dut), TopKeys(TemplateOf(Dut)) \ TopKeys(Disk))
       /\ check[Dut] /\ lastOp' = "write" /\ DoWrite(Dut) /\ Dut \notin extMod =>
             exc' = "none" /\ file'[Dut] = Content(opts[Dut])
      ]_vars
\* a set has just been refused: the file holds an outside edit, opts the set
C24_Witness ==
    /\ lastOp = "set" /\ exc = "ConfigException"
    /\ Outdated
    /\ Dut \in extMod

\* C29: when set, get_and_set, delete or get_and_clear on a check_date
\* document or on one of its SubConfigs is refused with ConfigException, the
\* file is as it was and the dict the call worked on holds the mutation; a
\* load() that follows leaves the file's content in the document's opts.
OptsOf(c) == heap[OptsAddr(Mem, c)]
Refused == exc' = "ConfigException" /\ file' = file /\ wrote' = {}
C29_NoRollback ==
    [][/\ lastOp' = "set" /\ exc' # "none" =>
             \A c \in Cfgs, k \in Keys :
                 DoSet(c, k, 1) => Refused /\ k \in DOMAIN OptsOf(c)' /\ OptsOf(c)'[k] = 1
       /\ lastOp' = "get_and_set" /\ exc' = "ConfigException" =>
             \A c \in Cfgs, k \in Keys :
                 DoGetAndSet(c, k, 2) =>
                     Refused /\ k \in DOMAIN OptsOf(c) /\ OptsOf(c)'[k] = MaxWith(2)[OptsOf(c)[k]]
       /\ lastOp' = "delete" /\ exc' = "ConfigException" =>
             \A c \in Cfgs, k \in Keys, ign \in BOOLEAN :
                 DoDelete(c, k, ign) =>
                     Refused /\ k \in DOMAIN OptsOf(c) /\ k \notin DOMAIN OptsOf(c)'
       /\ lastOp' = "get_and_clear" /\ exc' # "none" =>
             \A c \in Cfgs :
                 DoGetAndClear(c) => Refused /\ OptsOf(c)' = EmptyDict
       /\ exc = "ConfigException" /\ lastOp' = "load" =>
             exc' = "none" /\ Serialize(heap', opts'[Dut]) = Disk /\ file' = file
      ]_vars
\* set on a SubConfig has just been refused: the dict it shares with the
\* document holds the new value, the file does not
C29_Witness ==
    /\ lastOp = "set" /\ exc = "ConfigException" /\ nops = 4
    /\ \E s \in SubIds :
          /\ sub[s] # NoSub
          /\ \E k \in Keys : k \in DOMAIN heap[sub[s].opts] /\ heap[sub[s].opts][k] = 1
          /\ \E k \in Keys : << <<sub[s].name, k>>, 1 >> \in Content(opts[Dut]) \ Disk

\* C25: each of the five callbacks runs from get_jobcfg_for_header to the
\* write without an await, so it is one step: it starts from the document as
\* the step before left it in memory and leaves, in memory and in the file,
\* exactly that document with its own entry added or removed.  Two callbacks
\* for one document therefore take effect one after the other, in the order
\* they run, and neither undoes the other's entry.
Whole(g, name, keys) ==
    /\ exc' = "none"
    /\ file'[g] = Serialize(heap', opts'[g])
    /\ Persisted(g, name)' = keys
    /\ \A other \in Keys \ {name} : Persisted(g, other)' = InMemory(g, other)
C25_Serialized ==
    [][\A id \in Ids, g \in Guilds :
          /\ lastOp' = "job_submit" /\ Registered(g) /\ JobSubmitted(id, g) =>
                Whole(g, "jobs", InMemory(g, "jobs") \cup {IdKey(id)})
          /\ lastOp' = "job_stop" /\ Registered(g) /\ JobStopped(id, g)
                /\ IdKey(id) \in InMemory(g, "jobs") =>
                Whole(g, "jobs", InMemory(g, "jobs") \ {IdKey(id)})
          /\ lastOp' = "job_cancel" /\ Registered(g) /\ JobCancelled(id, g)
                /\ IdKey(id) \in InMemory(g, "jobs") =>
                Whole(g, "jobs", InMemory(g, "jobs") \ {IdKey(id)})
          /\ lastOp' = "sched_create" /\ Registered(g) /\ SchedCreated(id, g) =>
                Whole(g, "cron", InMemory(g, "cron") \cup {IdKey(id)})
          /\ lastOp' = "sched_delete" /\ Registered(g) /\ SchedDeleted(id, g)
                /\ IdKey(id) \in InMemory(g, "cron") =>
                Whole(g, "cron", InMemory(g, "cron") \ {IdKey(id)})
      ]_vars
\* two jobs were submitted for one guild, one after the other, and the file
\* holds both
C25_Witness ==
    /\ lastOp = "job_submit" /\ nops = 2 /\ passes = 0
    /\ \E g \in Guilds :
          /\ {Hdr(1, g), Hdr(2, g)} \subseteq queue
          /\ Persisted(g, "jobs") = {IdKey(1), IdKey(2)}

\* C27: resumption never submits a job that is live in the queue.  With no
\* job submitted before the ready signal, so that every job of the queue was
\* submitted during the pass or after it, resume_jobs is never about to
\* resubmit a header that is in the queue.
Duplicated ==
    \E h \in Handlers :
        task[h].pc = "await" /\ task[h].phase = "jobs" /\ task[h].cur \in queue
C27_NoDuplicate == ~Duplicated

\* C26: while a pass is suspended at an await, none of the headers it has
\* captured and not yet resubmitted is in the file of the document they were
\* taken from: get_and_clear has persisted the mapping without them.  If the
\* process is killed there, a header that no file holds is, after a restart
\* and through the new resumption, neither stored nor registered with the
\* scheduler or the queue.
Visited(h) == db[task[h].n - Len(task[h].iter)]
Captured(h) == task[h].pend \cup {task[h].cur}
Live(name) == IF name = "cron" THEN sched ELSE queue
C26_CrashWindow ==
    \A h \in Handlers :
        /\ task[h].pc = "await" =>
              \A x \in Captured(h) :
                  << <<task[h].phase, IdKey(IdOf(x))>>, x >> \notin file[Visited(h)]
        /\ task[h].pc = "killed" /\ ~crashed =>
              \A x \in task[h].pend :
                  <<task[h].phase, x>> \notin Durable /\ x \notin Live(task[h].phase)
\* a pass was killed holding a header no file had, and the resumption after
\* the restart has run to its end
C26_Witness ==
    /\ ~crashed /\ jobs_resumed
    /\ \E h \in Handlers : task[h].pc = "killed" /\ task[h].pend # {}
    /\ \E h \in Handlers : task[h].pc = "done"

\* C28: no file of job_db holds, under "cron", a schedule whose id is
\* greater than the last_schedule_id the "_monky" file holds; this in every
\* state, those the process is killed in included.
C28_CounterBounds ==
    \A x \in Durable : x[1] = "cron" => IdOf(x[2]) <= Counter
====
